---- MODULE Spec2Model ----
(***************************************************************************)
(* A model of main.py: DesktopEntryManager (the registry kept in           *)
(* state.json) and Application (the create / delete handlers that write    *)
(* and remove .desktop descriptor files).                                  *)
(*                                                                         *)
(* Strings are sequences of symbols.  Python objects held in self.state    *)
(* are tagged values: [t |-> "list"], [t |-> "dict"], [t |-> "str"],       *)
(* [t |-> "None"].  A dict is the sequence of its items in insertion       *)
(* order.  The text of state.json is a sequence of JSON tokens.            *)
(***************************************************************************)
EXTENDS Integers, Sequences, FiniteSets, TLC

VARIABLES
  state,        \* DesktopEntryManager.state (self.manager.state)
  state_file,   \* the file STATE_FILE: [exists, toks]
  fs,           \* the files of DESKTOP_ENTRY_DIR: path -> [content, mode]
  tree,         \* the rows of Application.tree, in display order
  now,          \* int(time.time())
  pc,           \* "mainloop", or "crashed" when Application() raised
  ops,          \* direct calls of the manager: [appends, removed]
  faults,       \* the I/O errors the handlers have met
  last          \* what the last call did (its dialogs, result, save)

vars == <<state, state_file, fs, tree, now, pc, ops, faults, last>>

(***************************************************************************)
(* Bounds of the model.                                                    *)
(***************************************************************************)
MaxEntries == 2     \* add_entry is not called on a longer list
MaxTime == 1        \* the clock runs from 0 to MaxTime seconds
MaxOps == 2         \* cap of the counters in ops
MaxFaults == 1      \* the handlers meet at most MaxFaults I/O errors

(***************************************************************************)
(* Python values.                                                          *)
(***************************************************************************)
NoneVal == [t |-> "None", v |-> <<>>]
Str(chars) == [t |-> "str", v |-> chars]
List(items) == [t |-> "list", v |-> items]
Dict(items) == [t |-> "dict", v |-> items]
Item(key, value) == [k |-> key, val |-> value]

IsList(x) == x.t = "list"
IsDict(x) == x.t = "dict"

\* not x
Falsy(x) == x.t = "None" \/ x.v = <<>>

\* len(x) of a list, dict or str
PyLen(x) == Len(x.v)

RECURSIVE Lookup(_, _, _)
Lookup(items, key, default) ==
  IF items = <<>> THEN default
  ELSE IF items[Len(items)].k = key THEN items[Len(items)].val
  ELSE Lookup(SubSeq(items, 1, Len(items) - 1), key, default)

\* entry.get(key, default)
Get(entry, key, default) == Lookup(entry.v, key, default)

(***************************************************************************)
(* json.dump: the value as a sequence of tokens.                           *)
(***************************************************************************)
Tok(kind) == [t |-> kind, v |-> <<>>]
StrTok(chars) == [t |-> "string", v |-> chars]

RECURSIVE Dump(_)
RECURSIVE DumpItems(_)
RECURSIVE DumpMembers(_)
DumpItems(items) ==
  IF items = <<>> THEN <<>>
  ELSE Dump(Head(items))
         \o (IF Len(items) > 1 THEN <<Tok(",")>> ELSE <<>>)
         \o DumpItems(Tail(items))

DumpMembers(items) ==
  IF items = <<>> THEN <<>>
  ELSE <<StrTok(Head(items).k), Tok(":")>> \o Dump(Head(items).val)
         \o (IF Len(items) > 1 THEN <<Tok(",")>> ELSE <<>>)
         \o DumpMembers(Tail(items))

Dump(x) ==
  CASE x.t = "str" -> <<StrTok(x.v)>>
    [] x.t = "None" -> <<Tok("null")>>
    [] x.t = "list" -> <<Tok("[")>> \o DumpItems(x.v) \o <<Tok("]")>>
    [] x.t = "dict" -> <<Tok("{")>> \o DumpMembers(x.v) \o <<Tok("}")>>

(***************************************************************************)
(* json.load: a recursive-descent parse of the tokens.  Each parser        *)
(* returns [ok, val, rest]; the document is valid when one value is read   *)
(* and no token is left.                                                   *)
(***************************************************************************)
Fail == [ok |-> FALSE, val |-> NoneVal, rest |-> <<>>]
Got(value, rest) == [ok |-> TRUE, val |-> value, rest |-> rest]

\* dict[key] = value: a repeated key keeps its place and takes the new value
SetItem(items, key, value) ==
  IF \E i \in 1..Len(items) : items[i].k = key
    THEN [i \in 1..Len(items) |->
            IF items[i].k = key THEN Item(key, value) ELSE items[i]]
    ELSE Append(items, Item(key, value))

RECURSIVE ParseValue(_)
RECURSIVE ParseItems(_, _)
RECURSIVE ParseMembers(_, _)

\* after "[" or after ",": a value, then "," or "]"
ParseItems(toks, acc) ==
  LET r == ParseValue(toks) IN
  IF ~r.ok \/ r.rest = <<>> THEN Fail
  ELSE IF Head(r.rest).t = "]" THEN Got(List(Append(acc, r.val)), Tail(r.rest))
  ELSE IF Head(r.rest).t = "," THEN ParseItems(Tail(r.rest), Append(acc, r.val))
  ELSE Fail

\* after "{" or after ",": a string, ":", a value, then "," or "}"
ParseMembers(toks, acc) ==
  IF Len(toks) < 2 \/ toks[1].t # "string" \/ toks[2].t # ":" THEN Fail
  ELSE LET r == ParseValue(SubSeq(toks, 3, Len(toks))) IN
       IF ~r.ok \/ r.rest = <<>> THEN Fail
       ELSE IF Head(r.rest).t = "}"
         THEN Got(Dict(SetItem(acc, toks[1].v, r.val)), Tail(r.rest))
       ELSE IF Head(r.rest).t = ","
         THEN ParseMembers(Tail(r.rest), SetItem(acc, toks[1].v, r.val))
       ELSE Fail

ParseValue(toks) ==
  IF toks = <<>> THEN Fail
  ELSE CASE Head(toks).t = "string" -> Got(Str(Head(toks).v), Tail(toks))
         [] Head(toks).t = "null" -> Got(NoneVal, Tail(toks))
         [] Head(toks).t = "[" ->
              IF Len(toks) > 1 /\ toks[2].t = "]"
                THEN Got(List(<<>>), SubSeq(toks, 3, Len(toks)))
                ELSE ParseItems(Tail(toks), <<>>)
         [] Head(toks).t = "{" ->
              IF Len(toks) > 1 /\ toks[2].t = "}"
                THEN Got(Dict(<<>>), SubSeq(toks, 3, Len(toks)))
                ELSE ParseMembers(Tail(toks), <<>>)
         [] OTHER -> Fail

\* json.load(f): raises (ok = FALSE) unless the whole text is one value
JsonLoad(toks) ==
  LET r == ParseValue(toks) IN
  IF r.ok /\ r.rest = <<>> THEN r ELSE Fail

(***************************************************************************)
(* The registry file and DesktopEntryManager.                              *)
(***************************************************************************)
STATE_FILE(exists, toks) == [exists |-> exists, toks |-> toks]

\* How open(STATE_FILE, 'w') and json.dump can end: the whole text written,
\* open() raising (the file is left alone), or a write raising after the
\* file was truncated and n tokens of the text got out (none, or the
\* first: every text has two tokens or more, and no beginning of a text is
\* a text).
SaveOutcomes(st) ==
  {[kind |-> "ok", n |-> Len(Dump(st))], [kind |-> "open_error", n |-> 0]}
    \cup {[kind |-> "write_error", n |-> k] : k \in {0, 1}}

\* the outcomes of a call that may not get as far as save_state
SaveCalls(reached, st) ==
  IF reached THEN SaveOutcomes(st) ELSE {[kind |-> "ok", n |-> 0]}

\* load_state with the except branch lost: whatever the parser holds when
\* it stops becomes self.state
LoadStateUnchecked(f, readOk) ==
  IF f.exists /\ readOk THEN ParseValue(f.toks).val ELSE List(<<>>)

\* load_state: the value of self.state afterwards.  readOk is FALSE when
\* open() or the read raises.
LoadState(f, readOk) ==
  IF f.exists
    THEN IF readOk /\ JsonLoad(f.toks).ok
           THEN JsonLoad(f.toks).val
           ELSE List(<<>>)
    ELSE List(<<>>)

\* save_state: STATE_FILE afterwards; no exception leaves the method.
SaveState(st, f, o) ==
  CASE o.kind = "ok" -> STATE_FILE(TRUE, Dump(st))
    [] o.kind = "open_error" -> f
    [] o.kind = "write_error" -> STATE_FILE(TRUE, SubSeq(Dump(st), 1, o.n))

\* A call's effect on the manager: whether it raised, what it returned,
\* self.state and STATE_FILE afterwards, how often save_state ran and
\* whether that save wrote the whole document.
Effect(raised, ret, st, f, saves, saved) ==
  [raised |-> raised, ret |-> ret, state |-> st, file |-> f,
   saves |-> saves, saved |-> saved]

\* self.state.append(entry): only a list has append
HasAppend(st) == IsList(st)

\* add_entry with the two statements swapped: the save comes first
AddEntrySaveFirst(st, f, entry, o) ==
  IF HasAppend(st)
    THEN Effect(FALSE, NoneVal, List(Append(st.v, entry)), SaveState(st, f, o),
                1, o.kind = "ok")
    ELSE Effect(TRUE, NoneVal, st, f, 0, FALSE)

\* add_entry that takes the entry back when the save fails
AddEntryRollback(st, f, entry, o) ==
  IF HasAppend(st)
    THEN LET new == List(Append(st.v, entry)) IN
         Effect(FALSE, NoneVal, IF o.kind = "ok" THEN new ELSE st,
                SaveState(new, f, o), 1, o.kind = "ok")
    ELSE Effect(TRUE, NoneVal, st, f, 0, FALSE)

\* add_entry(entry)
AddEntry(st, f, entry, o) ==
  IF HasAppend(st)
    THEN LET new == List(Append(st.v, entry)) IN
         Effect(FALSE, NoneVal, new, SaveState(new, f, o), 1, o.kind = "ok")
    ELSE Effect(TRUE, NoneVal, st, f, 0, FALSE)

\* the range check without its lower bound
InRangeNoLowerBound(index, st) == index < PyLen(st)

\* 0 <= index < len(self.state)
InRange(index, st) == 0 <= index /\ index < PyLen(st)

\* list.pop(index): Python counts a negative index from the end
PyIndex(index, n) == IF index < 0 THEN index + n ELSE index

\* list.pop(index) raises IndexError unless -len <= index < len
CanPop(items, index) == 0 - Len(items) <= index /\ index < Len(items)

\* a pop that takes out every item equal to the one at index
PopEqual(items, index) ==
  LET i == PyIndex(index, Len(items)) + 1 IN
  [item |-> items[i],
   items |-> SelectSeq(items, LAMBDA x : x # items[i])]

\* "self.state.pop()": the last item, whatever the index
PopLast(items, index) ==
  [item |-> items[Len(items)],
   items |-> SubSeq(items, 1, Len(items) - 1)]

Pop(items, index) ==
  LET i == PyIndex(index, Len(items)) + 1 IN
  [item |-> items[i],
   items |-> SubSeq(items, 1, i - 1) \o SubSeq(items, i + 1, Len(items))]

\* self.state.pop(index) does not raise: dict.pop(index) raises KeyError,
\* the keys being strings
PopReturns(st, index) == IsList(st) /\ CanPop(st.v, index)

\* remove_entry(index).  len(None) raises.
RemoveEntry(st, f, index, o) ==
  IF st.t = "None" THEN Effect(TRUE, NoneVal, st, f, 0, FALSE)
  ELSE IF InRange(index, st)
    THEN IF PopReturns(st, index)
           THEN LET p == Pop(st.v, index)
                    new == List(p.items) IN
                Effect(FALSE, p.item, new, SaveState(new, f, o), 1,
                       o.kind = "ok")
           ELSE Effect(TRUE, NoneVal, st, f, 0, FALSE)
    ELSE Effect(FALSE, NoneVal, st, f, 0, FALSE)

(***************************************************************************)
(* Strings and paths.                                                      *)
(***************************************************************************)
DESKTOP_ENTRY_DIR == <<"~", "/", "applications">>

RECURSIVE LastIndexOf(_, _)
\* the last position of symbol c in s, 0 when it has none
LastIndexOf(s, c) ==
  IF s = <<>> THEN 0
  ELSE IF s[Len(s)] = c THEN Len(s)
  ELSE LastIndexOf(SubSeq(s, 1, Len(s) - 1), c)

\* os.path.basename(path)
Basename(path) == SubSeq(path, LastIndexOf(path, "/") + 1, Len(path))

\* os.path.splitext(name)[0]: cut at the last dot, unless the name has no
\* dot or only leading dots before it
SplitextRoot(name) ==
  LET d == LastIndexOf(name, ".") IN
  IF d = 0 \/ \A i \in 1..(d - 1) : name[i] = "." THEN name
  ELSE SubSeq(name, 1, d - 1)

\* os.path.join(dir, name): an absolute name replaces dir
Join(dir, name) ==
  IF name # <<>> /\ Head(name) = "/" THEN name
  ELSE IF dir # <<>> /\ dir[Len(dir)] = "/" THEN dir \o name
  ELSE dir \o <<"/">> \o name

\* s.replace(a, b) for one-symbol a and b
Replace(s, a, b) == [i \in 1..Len(s) |-> IF s[i] = a THEN b ELSE s[i]]

Digit(d) == <<"0", "1", "2", "3", "4", "5", "6", "7", "8", "9">>[d + 1]

RECURSIVE Decimal(_)
\* str(n) for n >= 0
Decimal(n) == IF n < 10 THEN <<Digit(n)>> ELSE Decimal(n \div 10) \o <<Digit(n % 10)>>

\* f"{app_name.replace(' ', '_')}_{timestamp}.desktop"
Filename(app_name, timestamp) ==
  Replace(app_name, " ", "_") \o <<"_">> \o Decimal(timestamp) \o <<".desktop">>

DesktopFilePath(app_name, timestamp) ==
  Join(DESKTOP_ENTRY_DIR, Filename(app_name, timestamp))

\* the text of the descriptor, line by line
DesktopContent(app_name, appimage_path, icon_path, wm_class) ==
  << <<"[Desktop Entry]">>,
     <<"Version=1.0">>,
     <<"Type=Application">>,
     <<"Name=">> \o app_name,
     <<"Exec=", "\"">> \o appimage_path \o <<"\"">>,
     <<"Icon=">> \o icon_path,
     <<"StartupWMClass=">> \o wm_class,
     <<"Terminal=false">>,
     <<"Categories=Utility;">> >>

\* the dict create_desktop_entry hands to add_entry
Entry(app_name, appimage_path, desktop_file_path) ==
  Dict(<<Item(<<"app_name">>, Str(app_name)),
         Item(<<"appimage_path">>, Str(appimage_path)),
         Item(<<"desktop_file">>, Str(desktop_file_path))>>)

(***************************************************************************)
(* The descriptor files.                                                   *)
(***************************************************************************)
Mode755 == 493      \* 0o755
NewFileMode == 420  \* 0o644: the mode open(path, 'w') gives a new file

File(content, mode) == [content |-> content, mode |-> mode]

Exists(fsys, path) == path \in DOMAIN fsys

PutFile(fsys, path, file) ==
  [p \in DOMAIN fsys \cup {path} |-> IF p = path THEN file ELSE fsys[p]]

RemoveFile(fsys, path) == [p \in DOMAIN fsys \ {path} |-> fsys[p]]

ModeOf(fsys, path) == IF Exists(fsys, path) THEN fsys[path].mode ELSE NewFileMode

\* How the try block of create_desktop_entry can end: open() raising, the
\* write raising after the file was created or truncated (no claim reads
\* what a cut-short descriptor holds: it is left with n = 0 lines),
\* os.chmod raising, or no exception.
WriteOutcomes(content) ==
  {[kind |-> "ok", n |-> Len(content)],
   [kind |-> "open_error", n |-> 0],
   [kind |-> "chmod_error", n |-> Len(content)]}
    \cup {[kind |-> "write_error", n |-> 0]}

\* the files after open(path, 'w'), f.write(content), os.chmod(path, 0o755)
WriteDesktopFile(fsys, path, content, o) ==
  CASE o.kind = "ok" -> PutFile(fsys, path, File(content, Mode755))
    [] o.kind = "open_error" -> fsys
    [] o.kind = "write_error" ->
         PutFile(fsys, path, File(SubSeq(content, 1, o.n), ModeOf(fsys, path)))
    [] o.kind = "chmod_error" ->
         PutFile(fsys, path, File(content, ModeOf(fsys, path)))

\* a try block that ends with f.write: a failing os.chmod goes unnoticed
WriteRaisedBeforeChmod(o) == o.kind \in {"open_error", "write_error"}

\* the except branch of create_desktop_entry is taken
WriteRaised(o) == o.kind # "ok"

(***************************************************************************)
(* Application: the list widget.                                           *)
(***************************************************************************)
Row(entry) ==
  [app |-> Get(entry, <<"app_name">>, Str(<<"Unnamed">>)),
   file |-> Get(entry, <<"desktop_file">>, Str(<<>>))]

\* what "for entry in self.manager.state" yields: the items of a list, the
\* keys of a dict
Iterate(st) ==
  CASE IsDict(st) -> [i \in 1..Len(st.v) |-> Str(st.v[i].k)]
    [] st.t = "str" -> [i \in 1..Len(st.v) |-> Str(<<st.v[i]>>)]
    [] OTHER -> st.v

\* "self.tree.insert('', 0, ...)": every row goes on top of the earlier ones
RefreshListOnTop(st) ==
  LET items == Iterate(st)
      bad == {i \in 1..Len(items) : ~IsDict(items[i])}
      n == IF bad = {} THEN Len(items)
           ELSE (CHOOSE i \in bad : \A j \in bad : i <= j) - 1
  IN [raised |-> bad # {} \/ st.t = "None",
      tree |-> [i \in 1..n |-> Row(items[n + 1 - i])]]

\* refresh_list: the rows afterwards and whether entry.get raised; the rows
\* inserted before the exception stay
RefreshList(st) ==
  LET items == Iterate(st)
      bad == {i \in 1..Len(items) : ~IsDict(items[i])}
      n == IF bad = {} THEN Len(items)
           ELSE (CHOOSE i \in bad : \A j \in bad : i <= j) - 1
  IN [raised |-> bad # {} \/ st.t = "None",
      tree |-> [i \in 1..n |-> Row(items[i])]]

(***************************************************************************)
(* What the user and the environment can supply.                           *)
(***************************************************************************)
AppImagePaths == {<<"/", "d", "/", "a", " ", "b", ".", "AppImage">>}
TypedNames == {}
IconPaths == {<<"/", "i", ".", "png">>}

\* filedialog.askopenfilename: '' when cancelled
AppImageDialog == {Str(<<>>)} \cup {Str(p) : p \in AppImagePaths}

\* simpledialog.askstring: None when cancelled, else the text, which starts
\* as the initial value
NameDialog(default_name) ==
  {NoneVal, Str(<<>>), Str(default_name)} \cup {Str(n) : n \in TypedNames}

\* the WM class dialog and the icon dialog: both cancelled, the class left
\* empty and no icon, or a class typed and an icon chosen
OptionalDialogs ==
  {[wm_class |-> NoneVal, icon_path |-> Str(<<>>)],
   [wm_class |-> Str(<<>>), icon_path |-> Str(<<>>)]}
    \cup {[wm_class |-> Str(<<"w">>), icon_path |-> Str(p)] : p \in IconPaths}

\* a registration an earlier run of the program left behind
OldPath == Join(DESKTOP_ENTRY_DIR, <<"o", "_", "7", ".desktop">>)
OldEntry == Entry(<<"o">>, <<"/", "o", ".", "AppImage">>, OldPath)
OldFile ==
  File(DesktopContent(<<"o">>, <<"/", "o", ".", "AppImage">>, <<>>, <<"o">>),
       Mode755)

\* state.json when the program starts: missing, cut short, a list of
\* entries, or JSON that is no list
InitialStateFiles ==
  {STATE_FILE(FALSE, <<>>),
   STATE_FILE(TRUE, <<Tok("[")>>),
   STATE_FILE(TRUE, Dump(List(<<OldEntry>>))),
   STATE_FILE(TRUE, Dump(Dict(<<>>))),
   STATE_FILE(TRUE, Dump(Dict(<<Item(<<"k">>, Str(<<"v">>))>>)))}

\* the descriptor files when the program starts: those of the entries
\* state.json lists
InitialFiles(f) ==
  IF f = STATE_FILE(TRUE, Dump(List(<<OldEntry>>)))
    THEN [p \in {OldPath} |-> OldFile]
    ELSE <<>>

(***************************************************************************)
(* The record of the last call: op and step name the call and the branch   *)
(* it left by, io what the environment did (the answers of the dialogs,    *)
(* how the file operation ended), args the values the call worked on (the   *)
(* entry passed to add_entry, the answers create_desktop_entry collected),  *)
(* the rest what the call did.                                              *)
(***************************************************************************)
Last(op, step, io, index, raised, ret, eff, msgs) ==
  [op |-> op, step |-> step, io |-> io, index |-> index, raised |-> raised,
   ret |-> ret, saves |-> eff.saves, saved |-> eff.saved, msgs |-> msgs,
   args |-> <<>>]

WithArgs(l, args) == [l EXCEPT !.args = args]

\* the manager was not called
NoEffect == Effect(FALSE, NoneVal, state, state_file, 0, FALSE)

\* how the save of add_entry(entry) can end
AddOutcomes(st, entry) ==
  SaveCalls(HasAppend(st),
            IF HasAppend(st) THEN List(Append(st.v, entry)) ELSE st)

\* how the save of remove_entry(index) can end
RemoveSaves(st, index) ==
  LET reached == st.t # "None" /\ InRange(index, st) /\ PopReturns(st, index) IN
  SaveCalls(reached, IF reached THEN List(Pop(st.v, index).items) ELSE st)

\* the counters of the direct calls: the length load_state left, the calls
\* of add_entry that returned, the calls of remove_entry that returned an
\* entry
Count(eff, op) ==
  [base |-> ops.base,
   appends |-> ops.appends + (IF op = "add_entry" /\ ~eff.raised THEN 1 ELSE 0),
   removed |-> ops.removed + (IF op = "remove_entry" /\ eff.ret # NoneVal THEN 1 ELSE 0)]

(***************************************************************************)
(* DesktopEntryManager() and its two operations, called directly.           *)
(***************************************************************************)
InitManager ==
  \E f \in InitialStateFiles, readOk \in BOOLEAN :
    /\ state_file = f
    /\ state = LoadState(f, readOk)
    /\ fs = <<>>
    /\ tree = <<>>
    /\ now = 0
    /\ pc = "manager"
    /\ ops = [base |-> PyLen(LoadState(f, readOk)), appends |-> 0, removed |-> 0]
    /\ faults = 0
    /\ last = [op |-> "init", step |-> "done",
               io |-> IF readOk THEN "read" ELSE "read_error",
               index |-> 0, raised |-> FALSE, ret |-> NoneVal, saves |-> 0,
               saved |-> FALSE, msgs |-> <<>>,
               args |-> <<>>]

EntryArgs ==
  {Entry(SplitextRoot(Basename(p)), p,
         DesktopFilePath(SplitextRoot(Basename(p)), t)) :
     p \in AppImagePaths, t \in 0..MaxTime}

CallAddEntry ==
  /\ pc = "manager"
  /\ PyLen(state) < MaxEntries
  /\ ops.appends < MaxOps
  /\ \E entry \in EntryArgs :
       \E o \in AddOutcomes(state, entry) :
         LET eff == AddEntry(state, state_file, entry, o) IN
         /\ state' = eff.state
         /\ state_file' = eff.file
         /\ ops' = Count(eff, "add_entry")
         /\ last' = WithArgs(Last("add_entry", "done",
                                  IF eff.saves = 0 THEN "no_save" ELSE o.kind,
                                  0, eff.raised, eff.ret, eff, <<>>),
                             <<entry>>)
  /\ UNCHANGED <<fs, tree, now, pc, faults>>

CallRemoveEntry ==
  /\ pc = "manager"
  /\ \E index \in (0 - 2)..(PyLen(state) + 1) :
       \E o \in RemoveSaves(state, index) :
         LET eff == RemoveEntry(state, state_file, index, o) IN
         /\ state' = eff.state
         /\ state_file' = eff.file
         /\ ops' = Count(eff, "remove_entry")
         /\ last' = Last("remove_entry", "done",
                         IF eff.saves = 0 THEN "no_save" ELSE o.kind,
                         index, eff.raised, eff.ret, eff, <<>>)
  /\ UNCHANGED <<fs, tree, now, pc, faults>>

\* the program is started again on the state.json the last run left
Restart ==
  /\ pc = "manager"
  /\ \E readOk \in BOOLEAN :
       /\ state' = LoadState(state_file, readOk)
       /\ ops' = [base |-> PyLen(LoadState(state_file, readOk)),
                  appends |-> 0, removed |-> 0]
       /\ last' = [op |-> "init", step |-> "done",
                   io |-> IF readOk THEN "read" ELSE "read_error",
                   index |-> 0, raised |-> FALSE, ret |-> NoneVal,
                   saves |-> 0, saved |-> FALSE, msgs |-> <<>>,
                   args |-> <<>>]
  /\ UNCHANGED <<state_file, fs, tree, now, pc, faults>>

NextManager == CallAddEntry \/ CallRemoveEntry \/ Restart

SpecManager == InitManager /\ [][NextManager]_vars

\* the outcomes the handlers can still meet: only "ok" once MaxFaults
\* errors have happened
Within(outcomes) ==
  IF faults < MaxFaults THEN outcomes ELSE {o \in outcomes : o.kind = "ok"}

Faulty(o) == IF o.kind = "ok" THEN 0 ELSE 1

(***************************************************************************)
(* Application: construction, the two button handlers, and what happens     *)
(* around the program (the clock, a file removed by someone else).          *)
(***************************************************************************)
Init ==
  \E f \in InitialStateFiles, readOk \in BOOLEAN :
    LET st == LoadState(f, readOk)
        r == RefreshList(st) IN
    /\ state_file = f
    /\ state = st
    /\ fs = InitialFiles(f)
    /\ tree = r.tree
    /\ now = 0
    /\ pc = IF r.raised THEN "crashed" ELSE "mainloop"
    /\ ops = [base |-> PyLen(st), appends |-> 0, removed |-> 0]
    /\ faults = 0
    /\ last = [op |-> "init", step |-> "done",
               io |-> IF readOk THEN "read" ELSE "read_error",
               index |-> 0, raised |-> r.raised, ret |-> NoneVal, saves |-> 0,
               saved |-> FALSE, msgs |-> <<>>,
               args |-> <<>>]

\* "if app_name is None": an empty answer passes
NameMissingOnlyNone(app_name) == app_name = NoneVal

\* "if not app_name"
NameMissing(app_name) == Falsy(app_name)

\* what the name dialog answered
NameAnswer(app_name) ==
  CASE app_name = NoneVal -> "name_cancelled"
    [] app_name = Str(<<>>) -> "name_empty"
    [] OTHER -> "name_given"

\* "if wm_class is None": an empty answer is kept
WmClassOnlyNone(wm_input, app_name) ==
  IF wm_input = NoneVal THEN app_name ELSE wm_input

\* "if not wm_class: wm_class = app_name"
WmClass(wm_input, app_name) ==
  IF Falsy(wm_input) THEN app_name ELSE wm_input

\* create_desktop_entry, from the file dialog to the last message box
CreateDesktopEntry ==
  /\ pc = "mainloop"
  /\ PyLen(state) < MaxEntries
  /\ \E appimage_path \in AppImageDialog :
       IF Falsy(appimage_path)
         THEN /\ last' = Last("create", "no_file", "no_file", 0, FALSE,
                              NoneVal, NoEffect, <<>>)
              /\ UNCHANGED <<state, state_file, fs, tree, faults>>
         ELSE
     \E app_name \in NameDialog(SplitextRoot(Basename(appimage_path.v))) :
       IF NameMissing(app_name)
         THEN /\ last' = Last("create", "no_name", NameAnswer(app_name), 0,
                              FALSE, NoneVal, NoEffect, <<"showerror">>)
              /\ UNCHANGED <<state, state_file, fs, tree, faults>>
         ELSE
     \E answers \in OptionalDialogs :
       LET wm_input == answers.wm_class
           icon_path == answers.icon_path
           wm_class == WmClass(wm_input, app_name)
           timestamp == now
           desktop_file_path == DesktopFilePath(app_name.v, timestamp)
           desktop_content ==
             DesktopContent(app_name.v, appimage_path.v, icon_path.v, wm_class.v)
           entry == Entry(app_name.v, appimage_path.v, desktop_file_path)
           answer == NameAnswer(app_name)
           args == <<app_name, appimage_path, wm_input, icon_path>>
       IN
       \E wo \in Within(WriteOutcomes(desktop_content)) :
         /\ fs' = WriteDesktopFile(fs, desktop_file_path, desktop_content, wo)
         /\ IF WriteRaised(wo)
              THEN /\ last' = Last("create", "except",
                                   IF answer = "name_given" THEN wo.kind
                                   ELSE answer,
                                   0, FALSE, NoneVal, NoEffect, <<"showerror">>)
                   /\ faults' = faults + Faulty(wo)
                   /\ UNCHANGED <<state, state_file, tree>>
              ELSE
            \E so \in Within(AddOutcomes(state, entry)) :
              LET eff == AddEntry(state, state_file, entry, so)
                  io == IF answer = "name_given" THEN wo.kind ELSE answer IN
              /\ faults' = faults + Faulty(wo) + Faulty(so)
              /\ state' = eff.state
              /\ state_file' = eff.file
              /\ IF eff.raised
                   THEN /\ tree' = tree
                        /\ last' = WithArgs(Last("create", "raised", io, 0,
                                                 TRUE, NoneVal, eff, <<>>),
                                            args)
                   ELSE /\ tree' = RefreshList(eff.state).tree
                        /\ last' = WithArgs(Last("create", "done", io, 0,
                                                 FALSE, NoneVal, eff,
                                                 <<"showinfo">>),
                                            args)
  /\ UNCHANGED <<now, pc, ops>>

\* how os.remove can end
RemoveOutcomes == {[kind |-> "ok"], [kind |-> "error"]}

\* os.remove is only called on a file that exists
RemoveCalls(fsys, desktop_file) ==
  IF desktop_file # NoneVal /\ Exists(fsys, desktop_file.v)
    THEN RemoveOutcomes
    ELSE {[kind |-> "ok"]}

\* an except branch that lets a failed os.remove pass
RemoveRaisedOnlyNoPath(fsys, desktop_file, ro) == desktop_file = NoneVal

\* os.remove without the os.path.exists test before it: a file that is
\* gone raises FileNotFoundError
RemoveRaisedWhenAbsent(fsys, desktop_file, ro) ==
  \/ desktop_file = NoneVal
  \/ ~Exists(fsys, desktop_file.v)
  \/ ro.kind = "error"

\* the except branch of delete_entry is taken: os.path.exists(None) raises
\* TypeError, os.remove raises OSError
RemoveRaised(fsys, desktop_file, ro) ==
  \/ desktop_file = NoneVal
  \/ Exists(fsys, desktop_file.v) /\ ro.kind = "error"

\* the files after "if os.path.exists(desktop_file): os.remove(desktop_file)"
RemoveDesktopFile(fsys, desktop_file, ro) ==
  IF desktop_file # NoneVal /\ Exists(fsys, desktop_file.v) /\ ro.kind = "ok"
    THEN RemoveFile(fsys, desktop_file.v)
    ELSE fsys

\* what the file system did when asked for the file and to remove it
RemoveAnswer(fsys, desktop_file, ro) ==
  CASE desktop_file = NoneVal -> "no_path"
    [] ~Exists(fsys, desktop_file.v) -> "absent"
    [] ro.kind = "ok" -> "removed"
    [] OTHER -> "remove_error"

\* self.manager.state[index] does not raise, and neither does entry.get
CanIndex(st, index) ==
  /\ IsList(st)
  /\ 0 - PyLen(st) <= index
  /\ index < PyLen(st)
  /\ IsDict(st.v[PyIndex(index, PyLen(st)) + 1])

\* delete_entry, from the selection to the last message box; selected is
\* the position of the selected row, -1 with no row selected
DeleteEntry ==
  /\ pc = "mainloop"
  /\ \E selected \in (0 - 1)..(Len(tree) - 1) :
       IF selected < 0
         THEN /\ last' = Last("delete", "no_selection", "no_selection",
                              selected, FALSE, NoneVal, NoEffect,
                              <<"showwarning">>)
              /\ UNCHANGED <<state, state_file, fs, tree, faults>>
         ELSE
       LET index == selected IN
       IF ~CanIndex(state, index)
         THEN /\ last' = Last("delete", "raised", "selected", index, TRUE,
                              NoneVal, NoEffect, <<>>)
              /\ UNCHANGED <<state, state_file, fs, tree, faults>>
         ELSE
       LET entry == state.v[index + 1]
           desktop_file == Get(entry, <<"desktop_file">>, NoneVal)
       IN
       \E confirmed \in BOOLEAN :
         IF ~confirmed
           THEN /\ last' = Last("delete", "declined", "declined", index, FALSE,
                                NoneVal, NoEffect, <<"askyesno">>)
                /\ UNCHANGED <<state, state_file, fs, tree, faults>>
           ELSE
         \E ro \in Within(RemoveCalls(fs, desktop_file)) :
           LET io == RemoveAnswer(fs, desktop_file, ro) IN
           /\ fs' = RemoveDesktopFile(fs, desktop_file, ro)
           /\ IF RemoveRaised(fs, desktop_file, ro)
                THEN /\ last' = Last("delete", "except", io, index, FALSE,
                                     NoneVal, NoEffect,
                                     <<"askyesno", "showerror">>)
                     /\ faults' = faults + Faulty(ro)
                     /\ UNCHANGED <<state, state_file, tree>>
                ELSE
              \E so \in Within(RemoveSaves(state, index)) :
                LET eff == RemoveEntry(state, state_file, index, so) IN
                /\ faults' = faults + Faulty(ro) + Faulty(so)
                /\ state' = eff.state
                /\ state_file' = eff.file
                /\ tree' = RefreshList(eff.state).tree
                /\ last' = Last("delete", "done", io, index, FALSE, NoneVal,
                                eff, <<"askyesno", "showinfo">>)
  /\ UNCHANGED <<now, pc, ops>>

\* something that happens around the program, between two calls
Event(what) ==
  Last(what, "done", what, 0, FALSE, NoneVal, NoEffect, <<>>)

\* time.time() moves on
Tick ==
  /\ now < MaxTime
  /\ now' = now + 1
  /\ last' = Event("tick")
  /\ UNCHANGED <<state, state_file, fs, tree, pc, ops, faults>>

\* someone else removes a descriptor file
ExternalRemove ==
  /\ \E path \in DOMAIN fs : fs' = RemoveFile(fs, path)
  /\ last' = Event("external_remove")
  /\ UNCHANGED <<state, state_file, tree, now, pc, ops, faults>>

Next == CreateDesktopEntry \/ DeleteEntry \/ Tick \/ ExternalRemove

Spec == Init /\ [][Next]_vars

\* the program alone with its descriptor directory: nobody else removes files
NextNoExternal == CreateDesktopEntry \/ DeleteEntry \/ Tick

SpecNoExternal == Init /\ [][NextNoExternal]_vars

(***************************************************************************)
(* The registry under direct calls (SpecManager).                           *)
(***************************************************************************)

\* C1: after every add_entry or remove_entry whose save wrote the document,
\* load_state on that document gives the in-memory sequence back: the same
\* records in the same order.
C1_RoundTrip ==
  (last.op \in {"add_entry", "remove_entry"} /\ last.saved)
    => LoadState(state_file, TRUE) = state

C1_Witness ==
  /\ last.op = "remove_entry"
  /\ last.saved
  /\ PyLen(state) >= 1
  /\ ops.appends >= 1

\* C6: remove_entry with an index outside [0, len), negative ones included,
\* returns None, leaves self.state as it was and does not call save_state:
\* state.json is not rewritten.
C6_OutOfRangeNoEffect ==
  [][(last'.op = "remove_entry"
        /\ (last'.index < 0 \/ last'.index >= PyLen(state)))
       => /\ last'.ret = NoneVal
          /\ ~last'.raised
          /\ state' = state
          /\ state_file' = state_file
          /\ last'.saves = 0]_vars

C6_Witness ==
  /\ last.op = "remove_entry"
  /\ last.index < 0
  /\ PyLen(state) > 0
  /\ last.ret = NoneVal

\* the text in state.json is the text of the in-memory sequence
InStep(st, f) == f.exists /\ f.toks = Dump(st)

\* what add_entry and remove_entry promise of self.state, whatever the save
\* does: the entry at the end, or the entry at index taken out and returned
MutationKept ==
  /\ ~last'.raised
  /\ last'.op = "add_entry"
       => /\ PyLen(state') = PyLen(state) + 1
          /\ SubSeq(state'.v, 1, PyLen(state)) = state.v
          /\ state'.v[PyLen(state')] \in EntryArgs
  /\ last'.op = "remove_entry"
       => /\ last'.ret = state.v[last'.index + 1]
          /\ state'.v = SubSeq(state.v, 1, last'.index)
                          \o SubSeq(state.v, last'.index + 2, PyLen(state))

\* C8 as claimed: after an add_entry or remove_entry whose save failed, the
\* call has not raised and the in-memory sequence is ahead of state.json,
\* the text there being another than the sequence's.
C8_AheadAfterFailedSave ==
  (last.op \in {"add_entry", "remove_entry"} /\ last.saves = 1 /\ ~last.saved)
    => (~last.raised /\ ~InStep(state, state_file))

\* C8, amended: when the save of add_entry or remove_entry fails the call
\* does not raise, the mutation stays (the entry is appended, the removed
\* entry is returned), and the in-memory sequence is ahead of state.json
\* provided the two were in step before the call.
C8_FailedSaveKeepsMutation ==
  [][(last'.op \in {"add_entry", "remove_entry"}
        /\ last'.saves = 1 /\ ~last'.saved)
       => /\ MutationKept
          /\ InStep(state, state_file) => ~InStep(state', state_file')]_vars

C8_Witness ==
  /\ last.op = "remove_entry"
  /\ last.saves = 1
  /\ ~last.saved
  /\ last.ret # NoneVal
  /\ PyLen(state) = 1

\* C9: load_state does not raise, and with state.json missing, unreadable
\* or no valid JSON text it leaves self.state the empty list.
C9_LoadFailureGivesEmpty ==
  (last.op = "init"
     /\ (~state_file.exists \/ last.io = "read_error"
           \/ ~JsonLoad(state_file.toks).ok))
    => (state = List(<<>>) /\ ~last.raised)

C9_Witness ==
  /\ last.op = "init"
  /\ last.io = "read"
  /\ state_file.exists
  /\ state_file.toks = <<>>

\* C10: the length of self.state is the length load_state left (0 from an
\* empty registry) plus the calls of add_entry minus the calls of
\* remove_entry that returned an entry, whether the saves succeeded or not.
C10_Count == PyLen(state) = ops.base + ops.appends - ops.removed

C10_Witness ==
  /\ ops.base = 0
  /\ ops.appends = 2
  /\ ops.removed = 1
  /\ ~last.saved
  /\ last.saves = 1

(***************************************************************************)
(* The handlers (Spec).                                                     *)
(***************************************************************************)
DesktopFileOf(entry) == Get(entry, <<"desktop_file">>, NoneVal)

\* C2 as claimed: two entries of the registry never name the same
\* descriptor file, so two calls of create_desktop_entry for one name,
\* also within one second, leave two files and two entries with different
\* desktop_file values.
C2_DistinctDescriptorFiles ==
  IsList(state)
    => \A i, j \in 1..PyLen(state) :
         i # j => DesktopFileOf(state.v[i]) # DesktopFileOf(state.v[j])

\* the registry and state.json are what they were and nothing was saved
RegistryUntouched ==
  /\ state' = state
  /\ state_file' = state_file
  /\ tree' = tree
  /\ last'.saves = 0

Shown(kind) == \E i \in 1..Len(last'.msgs) : last'.msgs[i] = kind

\* C3: when open(), the write or os.chmod fails in create_desktop_entry,
\* the error is shown and no entry is appended: self.state and state.json
\* are what they were before the call and save_state is not called.
C3_WriteErrorAppendsNothing ==
  [][(last'.op = "create"
        /\ last'.io \in {"open_error", "write_error", "chmod_error"})
       => /\ Shown("showerror")
          /\ ~Shown("showinfo")
          /\ RegistryUntouched]_vars

C3_Witness ==
  /\ last.op = "create"
  /\ last.io = "chmod_error"
  /\ last.step = "except"

\* C4: when os.remove fails in delete_entry on a file that exists, the error
\* is shown and the deletion stops there: the entry stays, self.state and
\* state.json are what they were, and remove_entry is not called.
C4_RemoveErrorKeepsRecord ==
  [][(last'.op = "delete" /\ last'.io = "remove_error")
       => /\ Shown("showerror")
          /\ ~Shown("showinfo")
          /\ fs' = fs
          /\ RegistryUntouched]_vars

C4_Witness ==
  /\ last.op = "delete"
  /\ last.io = "remove_error"
  /\ last.step = "except"
  /\ PyLen(state) >= 1

\* C5: delete_entry confirmed for an entry whose descriptor file is already
\* gone raises nothing and shows no error: the entry at the selected
\* position leaves self.state, save_state is called once (and state.json
\* then reloads as the new sequence when the save succeeds), and the
\* success message is shown.
C5_AbsentFileStillDeletes ==
  [][(last'.op = "delete" /\ last'.io = "absent")
       => /\ ~last'.raised
          /\ ~Shown("showerror")
          /\ Shown("showinfo")
          /\ CanPop(state.v, last'.index)
          /\ state' = List(Pop(state.v, last'.index).items)
          /\ tree' = RefreshList(state').tree
          /\ fs' = fs
          /\ last'.saves = 1
          /\ last'.saved => LoadState(state_file', TRUE) = state']_vars

C5_Witness ==
  /\ last.op = "delete"
  /\ last.io = "absent"
  /\ last.step = "done"
  /\ last.saved
  /\ PyLen(state) >= 1

\* C7: create_desktop_entry with the name dialog cancelled or left empty
\* shows the error and does nothing else: no descriptor file is created or
\* written, no entry is appended, save_state is not called.
C7_EmptyNameNoEffect ==
  [][(last'.op = "create" /\ last'.io \in {"name_cancelled", "name_empty"})
       => /\ Shown("showerror")
          /\ ~Shown("showinfo")
          /\ fs' = fs
          /\ RegistryUntouched]_vars

C7_Witness ==
  /\ last.op = "create"
  /\ last.io = "name_empty"
  /\ last.step = "no_name"

\* C12: a create whose descriptor was written and whose record was appended
\* leaves a file of mode 0755 at the record's desktop_file whose lines are
\* Name=app_name, Exec="bundle path", Icon=the icon path as answered,
\* StartupWMClass=the class answered or app_name when that answer is None or
\* empty, Terminal=false; the record is the three fields app_name,
\* appimage_path, desktop_file put after the records already there
C12_DescriptorAndRecord ==
  [][(last'.op = "create" /\ last'.io = "ok" /\ ~last'.raised)
       => LET app_name == last'.args[1]
              appimage_path == last'.args[2]
              class_id == last'.args[3]
              icon_path == last'.args[4]
              record == state'.v[PyLen(state')]
              path == DesktopFileOf(record)
          IN /\ state'.v = Append(state.v, record)
             /\ record.v = <<Item(<<"app_name">>, app_name),
                             Item(<<"appimage_path">>, appimage_path),
                             Item(<<"desktop_file">>, path)>>
             /\ path # NoneVal
             /\ Exists(fs', path.v)
             /\ ModeOf(fs', path.v) = Mode755
             /\ LET content == fs'[path.v].content IN
                /\ content[4] = <<"Name=">> \o app_name.v
                /\ content[5] = <<"Exec=", "\"">> \o appimage_path.v \o <<"\"">>
                /\ content[6] = <<"Icon=">> \o icon_path.v
                /\ content[7] = <<"StartupWMClass=">> \o
                                  (IF class_id \in {NoneVal, Str(<<>>)}
                                     THEN app_name.v ELSE class_id.v)
                /\ content[8] = <<"Terminal=false">>]_vars

\* a create went through with the WM class dialog left empty
C12_Witness ==
  /\ last.op = "create"
  /\ last.io = "ok"
  /\ ~last.raised
  /\ last.args[3] = Str(<<>>)
  /\ PyLen(state) = 2

\* C14: while the main loop waits for the user the rows of the list are the
\* records of the registry, one row per record in the same order, so the
\* index of any row is an index of the registry, of the record the row shows
C14_RowsFollowRegistry ==
  pc = "mainloop"
    => /\ Len(tree) = PyLen(state)
       /\ \A i \in 1..Len(tree) :
            /\ CanIndex(state, i - 1)
            /\ tree[i] = Row(state.v[i])

\* two different rows are shown after a delete that os.remove failed
C14_Witness ==
  /\ pc = "mainloop"
  /\ last.op = "delete"
  /\ last.io = "remove_error"
  /\ Len(tree) = 2
  /\ tree[1] # tree[2]

(***************************************************************************)
(* The handlers with nobody else touching the directory (SpecNoExternal).   *)
(***************************************************************************)
\* C15: when the program started with an empty registry, every record of the
\* registry names a descriptor file that exists
C15_RecordsNameExistingFiles ==
  (ops.base = 0 /\ IsList(state))
    => \A i \in 1..PyLen(state) :
         LET path == DesktopFileOf(state.v[i]) IN
         path # NoneVal /\ Exists(fs, path.v)

(***************************************************************************)
(* The registry under direct calls (SpecManager), continued.                *)
(***************************************************************************)
\* C13: add_entry on a list puts the entry behind the records already there
\* and changes none of them; remove_entry(i) with 0 <= i < len returns the
\* record at i and leaves the others in the order they had
C13_OrderKept ==
  [][/\ (last'.op = "add_entry" /\ IsList(state))
          => /\ ~last'.raised
             /\ state'.v = Append(state.v, last'.args[1])
     /\ (/\ last'.op = "remove_entry"
         /\ IsList(state)
         /\ 0 <= last'.index
         /\ last'.index < PyLen(state))
          => /\ last'.ret = state.v[last'.index + 1]
             /\ state'.v = [j \in 1..(PyLen(state) - 1) |->
                              IF j <= last'.index THEN state.v[j]
                              ELSE state.v[j + 1]]]_vars

\* the first of two different records was removed
C13_Witness ==
  /\ last.op = "remove_entry"
  /\ last.index = 0
  /\ IsList(state)
  /\ PyLen(state) = 1
  /\ last.ret # NoneVal
  /\ last.ret # state.v[1]

\* C16: after load_state, whatever state.json held, the registry is a list
\* of records
C16_LoadGivesSequence ==
  last.op = "init"
    => /\ IsList(state)
       /\ \A i \in 1..PyLen(state) : IsDict(state.v[i])

====
